---------------------------- MODULE Spec2Model ----------------------------
(***************************************************************************)
(* A model of AEIFDataset (python/kiss_icp/datasets/aeif.py): the          *)
(* random-access adapter that exposes a multi-file recording as one flat   *)
(* sequence of frames.                                                     *)
(*                                                                         *)
(* Strings are sequences of one-character strings.  Python indices are     *)
(* kept 0-based in every value the model stores or returns; only the       *)
(* access to a TLA+ sequence adds 1.  Python's None is the empty tuple and *)
(* an int n is <<n>> wherever a value may be None.                         *)
(***************************************************************************)
EXTENDS Integers, Sequences, FiniteSets, TLC

VARIABLES
    disk,               \* directory name -> set of file names it holds
    num_frames,         \* file name -> num_frames of the record the reader opens
    pc,                 \* "new", "ready"; "resolving", "resolved": line 50
    sequence,           \* the specifier handed to __init__
    sequence_name,      \* self._sequence_name
    aeif_sequence_dir,  \* self._aeif_sequence_dir (relative to data_dir)
    start_file,         \* self._start_file
    end_file,           \* self._end_file
    files_buffer,       \* self._files_buffer: the buffered file records
    frames_per_file,    \* self._frames_per_file
    ret                 \* outcome of the last call

vars == <<disk, num_frames, pc, sequence, sequence_name, aeif_sequence_dir,
          start_file, end_file, files_buffer, frames_per_file, ret>>

(***************************************************************************)
(* Bounds of the model.                                                    *)
(***************************************************************************)
MaxFiles == 4        \* files in the sequence directory (range resolution)
MaxBufFiles == 3     \* buffered file records (frame index)
MaxFrames == 2       \* num_frames of one record
MaxSpecLen == 5      \* characters of a sequence specifier
IdxMargin == 1       \* global indices tried on each side of [0, len)

None == <<>>
Some(n) == <<n>>

-----------------------------------------------------------------------------
(***************************************************************************)
(* Strings, as Python treats them.                                         *)
(***************************************************************************)
Digits == <<"0", "1", "2", "3", "4", "5", "6", "7", "8", "9">>

IsDigit(c) == \E d \in 1..Len(Digits) : Digits[d] = c

DigitValue(c) == (CHOOSE d \in 1..Len(Digits) : Digits[d] = c) - 1

\* ord(c) for the characters that occur; ".4mse" and ".txt" stand for the
\* extension, which begins with ".".
Ord(c) ==
    CASE c = "#" -> 35
      [] c = "-" -> 45
      [] c = ".4mse" -> 46
      [] c = ".txt" -> 46
      [] IsDigit(c) -> 48 + DigitValue(c)
      [] c = "_" -> 95
      [] c = "d" -> 100
      [] c = "i" -> 105
      [] c = "s" -> 115

\* a < b for Python strings: the first differing character decides, and a
\* proper prefix is smaller.
StrLess(a, b) ==
    \E i \in 1..(Len(b)) :
        /\ i <= Len(a) + 1
        /\ \A j \in 1..(i - 1) : a[j] = b[j]
        /\ \/ i = Len(a) + 1
           \/ i <= Len(a) /\ Ord(a[i]) < Ord(b[i])

\* str.split(sep): the parts between the occurrences of sep, at least one.
RECURSIVE SplitFrom(_, _, _, _)
SplitFrom(s, sep, i, cur) ==
    IF i > Len(s) THEN <<cur>>
    ELSE IF s[i] = sep THEN <<cur>> \o SplitFrom(s, sep, i + 1, <<>>)
    ELSE SplitFrom(s, sep, i + 1, Append(cur, s[i]))

Split(s, sep) == SplitFrom(s, sep, 1, <<>>)

\* int(s) on the characters that occur: a non-empty run of digits is its
\* decimal value (leading zeros allowed), anything else raises ValueError.
RECURSIVE DecimalValue(_)
DecimalValue(s) ==
    IF s = <<>> THEN 0
    ELSE 10 * DecimalValue(SubSeq(s, 1, Len(s) - 1)) + DigitValue(s[Len(s)])

PyInt(s) ==
    IF s # <<>> /\ \A i \in 1..Len(s) : IsDigit(s[i])
    THEN [ok |-> TRUE, value |-> DecimalValue(s)]
    ELSE [ok |-> FALSE]

-----------------------------------------------------------------------------
(***************************************************************************)
(* The sequence directory.                                                 *)
(***************************************************************************)
\* s[n:]
DropFirst(s, n) == SubSeq(s, n + 1, Len(s))

\* int(file_name.split('_')[0][2:])
FileId(file_name) == PyInt(DropFirst(Split(file_name, "_")[1], 2)).value

RECURSIVE SortedNames(_)
SortedNames(S) ==
    IF S = {} THEN <<>>
    ELSE LET least == CHOOSE f \in S : \A g \in S \ {f} : StrLess(f, g)
         IN <<least>> \o SortedNames(S \ {least})

\* sorted(glob.glob(os.path.join(dir, "*.4mse"))); a missing directory
\* matches nothing.
Glob(dir) ==
    IF dir \in DOMAIN disk
    THEN SortedNames({f \in disk[dir] : f[Len(f)] = ".4mse"})
    ELSE <<>>

\* The mutants of the scan of _filter_file_range.
RECURSIVE ScanRange_EndExclusive(_, _, _, _, _, _)
ScanRange_EndExclusive(all_files, start_id, end_id, idx, sf, ef) ==
    IF idx >= Len(all_files) THEN <<sf, ef>>
    ELSE LET file_id == Some(FileId(all_files[idx + 1]))
             sf2 == IF file_id = start_id /\ sf = 0 THEN idx ELSE sf
         IN IF file_id = end_id THEN <<sf2, idx>>
            ELSE ScanRange_EndExclusive(all_files, start_id, end_id, idx + 1, sf2, ef)

RECURSIVE ScanRange_NoBreak(_, _, _, _, _, _)
ScanRange_NoBreak(all_files, start_id, end_id, idx, sf, ef) ==
    IF idx >= Len(all_files) THEN <<sf, ef>>
    ELSE LET file_id == Some(FileId(all_files[idx + 1]))
             sf2 == IF file_id = start_id /\ sf = 0 THEN idx ELSE sf
             ef2 == IF file_id = end_id THEN idx + 1 ELSE ef
         IN ScanRange_NoBreak(all_files, start_id, end_id, idx + 1, sf2, ef2)

RECURSIVE ScanRange_StartAfter(_, _, _, _, _, _)
ScanRange_StartAfter(all_files, start_id, end_id, idx, sf, ef) ==
    IF idx >= Len(all_files) THEN <<sf, ef>>
    ELSE LET file_id == Some(FileId(all_files[idx + 1]))
             sf2 == IF file_id = start_id /\ sf = 0 THEN idx + 1 ELSE sf
         IN IF file_id = end_id THEN <<sf2, idx + 1>>
            ELSE ScanRange_StartAfter(all_files, start_id, end_id, idx + 1, sf2, ef)

\* The loop of _filter_file_range from file idx on, with the current
\* start_file (sf) and end_file (ef).
RECURSIVE ScanRange(_, _, _, _, _, _)
ScanRange(all_files, start_id, end_id, idx, sf, ef) ==
    IF idx >= Len(all_files) THEN <<sf, ef>>
    ELSE LET file_id == Some(FileId(all_files[idx + 1]))
             sf2 == IF file_id = start_id /\ sf = 0 THEN idx ELSE sf
         IN IF file_id = end_id THEN <<sf2, idx + 1>>
            ELSE ScanRange(all_files, start_id, end_id, idx + 1, sf2, ef)

\* _filter_file_range(start_id, end_id) in directory dir.
FilterFileRange(dir, start_id, end_id) ==
    LET all_files == Glob(dir)
    IN IF start_id = None \/ end_id = None
       THEN <<0, Len(all_files)>>
       ELSE ScanRange(all_files, start_id, end_id, 0, 0, Len(all_files))


-----------------------------------------------------------------------------
(***************************************************************************)
(* The frame index.                                                        *)
(***************************************************************************)
Raised(exc) == [raised |-> exc]
Returned(file_idx, frame_idx) ==
    [raised |-> "none", file_idx |-> file_idx, frame_idx |-> frame_idx]

\* The mutants of the loop of _find_file_and_frame.
RECURSIVE FindLoop_Inclusive(_, _, _, _)
FindLoop_Inclusive(table, target, file_idx, total) ==
    IF file_idx >= Len(table) THEN Raised("ValueError")
    ELSE LET num == table[file_idx + 1]
             total2 == total + num
         IN IF target <= total2
            THEN Returned(file_idx, target - (total2 - num))
            ELSE FindLoop_Inclusive(table, target, file_idx + 1, total2)

RECURSIVE FindLoop_NoAccumulate(_, _, _, _)
FindLoop_NoAccumulate(table, target, file_idx, total) ==
    IF file_idx >= Len(table) THEN Raised("ValueError")
    ELSE LET num == table[file_idx + 1]
             total2 == num
         IN IF target < total2
            THEN Returned(file_idx, target - (total2 - num))
            ELSE FindLoop_NoAccumulate(table, target, file_idx + 1, total2)

\* The loop of _find_file_and_frame from file file_idx on, total being the
\* frames of the files before it.
RECURSIVE FindLoop(_, _, _, _)
FindLoop(table, target, file_idx, total) ==
    IF file_idx >= Len(table) THEN Raised("ValueError")
    ELSE LET num == table[file_idx + 1]
             total2 == total + num
         IN IF target < total2
            THEN Returned(file_idx, target - (total2 - num))
            ELSE FindLoop(table, target, file_idx + 1, total2)

\* _find_file_and_frame(target)
FindFileAndFrame(table, target) == FindLoop(table, target, 0, 0)

\* sum(xs)
RECURSIVE PySum(_)
PySum(xs) == IF xs = <<>> THEN 0 ELSE xs[1] + PySum(Tail(xs))

\* s[a:b] for 0 <= a and 0 <= b
PySlice(s, a, b) == SubSeq(s, a + 1, IF b < Len(s) THEN b ELSE Len(s))

-----------------------------------------------------------------------------
(***************************************************************************)
(* The reader library, as far as the dataset uses it.  A record is         *)
(* [file, num_frames]; its frame j is [file, local]; whatever a frame      *)
(* carries (points, image, timestamp) is identified by the frame.          *)
(***************************************************************************)
Frame(record, j) == [file |-> record.file, local |-> j]

\* Dataloader(dir): one record per recording of dir, in sorted order.
Dataloader(dir) ==
    LET names == Glob(dir)
    IN [i \in 1..Len(names) |->
            [file |-> names[i], num_frames |-> num_frames[names[i]]]]

\* record[j]: the frame for 0 <= j < num_frames.  What the library does
\* with any other j is not fixed by this repository: it raises IndexError,
\* or, for -num_frames <= j < 0, it may count from the end as a list does.
RecordGetItem(record, j) ==
    IF 0 <= j /\ j < record.num_frames
    THEN {[raised |-> "none", frame |-> Frame(record, j)]}
    ELSE {Raised("IndexError")}
         \cup (IF j < 0 /\ -record.num_frames <= j
               THEN {[raised |-> "none",
                      frame |-> Frame(record, record.num_frames + j)]}
               ELSE {})

\* iter(record): frames 0 .. num_frames - 1 in order.
RecordFrames(record) == [j \in 1..record.num_frames |-> Frame(record, j - 1)]

\* frame.timestamp
Timestamp(frame) == <<"timestamp", frame>>

\* The mutant of get_frames_timestamps: one entry per file.
RECURSIVE FramesTimestamps_PerFile(_)
FramesTimestamps_PerFile(buffer) ==
    IF buffer = <<>> THEN <<>>
    ELSE (IF buffer[1].num_frames > 0
          THEN <<Timestamp(Frame(buffer[1], 0))>> ELSE <<>>)
         \o FramesTimestamps_PerFile(Tail(buffer))

\* get_frames_timestamps over the buffer
RECURSIVE FramesTimestamps(_)
FramesTimestamps(buffer) ==
    IF buffer = <<>> THEN <<>>
    ELSE LET frames == RecordFrames(buffer[1])
         IN [j \in 1..Len(frames) |-> Timestamp(frames[j])]
            \o FramesTimestamps(Tail(buffer))

\* _get_num_frames over the buffer
GetNumFrames(buffer) == [i \in 1..Len(buffer) |-> buffer[i].num_frames]

-----------------------------------------------------------------------------
(***************************************************************************)
(* Construction.                                                           *)
(***************************************************************************)
\* The try/except of __init__: the name and the two ids.
ParseSequence(seq) ==
    LET parts == Split(seq, "#")
        whole == [name |-> seq, start_id |-> None, end_id |-> None]
    IN IF Len(parts) # 2 THEN whole
       ELSE LET ids == Split(parts[2], "-")
            IN IF /\ Len(ids) = 2
                  /\ PyInt(ids[1]).ok
                  /\ PyInt(ids[2]).ok
               THEN [name |-> parts[1],
                     start_id |-> Some(PyInt(ids[1]).value),
                     end_id |-> Some(PyInt(ids[2]).value)]
               ELSE whole

\* __init__(data_dir, sequence)
Construct ==
    /\ pc = "new"
    /\ LET parsed == ParseSequence(sequence)
           dir == parsed.name
           range == FilterFileRange(dir, parsed.start_id, parsed.end_id)
           scan_files == PySlice(Dataloader(dir), range[1], range[2])
       IN /\ sequence_name' = parsed.name
          /\ aeif_sequence_dir' = dir
          /\ start_file' = range[1]
          /\ end_file' = range[2]
          /\ files_buffer' = scan_files
          /\ frames_per_file' = GetNumFrames(scan_files)
          /\ ret' = [op |-> "__init__",
                     start_id |-> parsed.start_id, end_id |-> parsed.end_id]
    /\ pc' = "ready"
    /\ UNCHANGED <<disk, num_frames, sequence>>

-----------------------------------------------------------------------------
(***************************************************************************)
(* The operations of a constructed dataset.                                *)
(***************************************************************************)
unchanged_self ==
    UNCHANGED <<disk, num_frames, pc, sequence, sequence_name,
                aeif_sequence_dir, start_file, end_file, files_buffer,
                frames_per_file>>

\* __len__()
DatasetLen == PySum(frames_per_file)

\* The global indices a caller may hand in: a margin on both sides of
\* [0, len(dataset)).
Indices == (0 - IdxMargin)..(DatasetLen + IdxMargin - 1)

\* len(dataset)
Len_ ==
    /\ pc = "ready"
    /\ ret' = [op |-> "__len__", value |-> DatasetLen]
    /\ unchanged_self

\* dataset[idx]: the lookup, then scans -> read_point_cloud reads frame
\* frame_idx of the buffered record (its points and their timestamps).
GetItem ==
    /\ pc = "ready"
    /\ \E idx \in Indices :
         LET found == FindFileAndFrame(frames_per_file, idx)
         IN IF found.raised # "none"
            THEN ret' = [op |-> "__getitem__", idx |-> idx, lookup |-> found,
                         raised |-> found.raised]
            ELSE \E read \in RecordGetItem(files_buffer[found.file_idx + 1],
                                           found.frame_idx) :
                    ret' = [op |-> "__getitem__", idx |-> idx, lookup |-> found,
                            raised |-> read.raised, read |-> read]
    /\ unchanged_self

\* get_frames_timestamps()
GetFramesTimestamps ==
    /\ pc = "ready"
    /\ ret' = [op |-> "get_frames_timestamps",
               value |-> FramesTimestamps(files_buffer)]
    /\ unchanged_self

\* project_points(idx, points): the image of local frame frame_idx + 1, the
\* lidar (or its info) of local frame frame_idx, and the overlay saved as
\* <idx>.png.  The saved image is recorded in ret: nothing reads it back.
ProjectPoints ==
    /\ pc = "ready"
    /\ \E idx \in Indices :
         LET found == FindFileAndFrame(frames_per_file, idx)
         IN IF found.raised # "none"
            THEN ret' = [op |-> "project_points", idx |-> idx, lookup |-> found,
                         raised |-> found.raised]
            ELSE LET record == files_buffer[found.file_idx + 1]
                     img_idx == found.frame_idx + 1
                 IN \E img \in RecordGetItem(record, img_idx) :
                      IF img.raised # "none"
                      THEN ret' = [op |-> "project_points", idx |-> idx,
                                   lookup |-> found, img_idx |-> img_idx,
                                   raised |-> img.raised]
                      ELSE \E lidar \in RecordGetItem(record, found.frame_idx) :
                             ret' = [op |-> "project_points", idx |-> idx,
                                     lookup |-> found, img_idx |-> img_idx,
                                     raised |-> lidar.raised, img |-> img,
                                     lidar |-> lidar,
                                     saved |-> IF lidar.raised = "none"
                                               THEN Some(idx) ELSE None]
    /\ unchanged_self

-----------------------------------------------------------------------------
(***************************************************************************)
(* The recordings on disk the model draws from.                            *)
(***************************************************************************)
IdDigits == {"0", "1"}
IdStrings == {<<a>> : a \in IdDigits} \cup {<<a, b>> : a, b \in IdDigits}
Stamps == {"1", "2"}

\* id<ID>_<timestamp>.4mse; the timestamp, of fixed width, is one symbol.
FileName(id, stamp) == <<"i", "d">> \o id \o <<"_", stamp, ".4mse">>

RecordingNames == {FileName(id, t) : id \in IdStrings, t \in Stamps}
OtherNames == {<<"i", "d", "0", "_", "1", ".txt">>}
RangeIds == {FileId(f) : f \in RecordingNames}

SequenceDir == <<"s">>

NotConstructed ==
    /\ start_file = 0
    /\ end_file = 0
    /\ files_buffer = <<>>
    /\ frames_per_file = <<>>
    /\ ret = [op |-> "none"]

(***************************************************************************)
(* Range resolution: __init__ has reached line 50 for the sequence "s",    *)
(* and _filter_file_range is called with any ids.                          *)
(***************************************************************************)
InitResolve ==
    /\ pc = "resolving"
    /\ sequence = SequenceDir
    /\ sequence_name = SequenceDir
    /\ aeif_sequence_dir = SequenceDir
    /\ \E S \in SUBSET (RecordingNames \cup OtherNames) :
          /\ Cardinality(S) <= MaxFiles
          /\ disk = [d \in {SequenceDir} |-> S]
          /\ num_frames = [f \in S |-> 1]
    /\ NotConstructed

\* _filter_file_range(start_id, end_id)
ResolveRange ==
    /\ pc = "resolving"
    /\ pc' = "resolved"
    /\ \E ids \in {<<None, None>>} \cup
                  {<<Some(a), Some(b)>> : a, b \in RangeIds} :
          ret' = [op |-> "_filter_file_range",
                  start_id |-> ids[1], end_id |-> ids[2],
                  value |-> FilterFileRange(aeif_sequence_dir, ids[1], ids[2])]
    /\ UNCHANGED <<disk, num_frames, sequence, sequence_name,
                   aeif_sequence_dir, start_file, end_file, files_buffer,
                   frames_per_file>>

NextResolve == ResolveRange

SpecResolve == InitResolve /\ [][NextResolve]_vars

(***************************************************************************)
(* The frame index: a dataset over the whole sequence "s", whose files     *)
(* hold any numbers of frames, is constructed and then read.               *)
(***************************************************************************)
IndexNames == SortedNames({FileName(id, "1") : id \in IdStrings})

NotStarted ==
    /\ pc = "new"
    /\ sequence_name = <<>>
    /\ aeif_sequence_dir = <<>>
    /\ NotConstructed

Init ==
    /\ sequence = SequenceDir
    /\ \E k \in 0..MaxBufFiles :
         LET S == {IndexNames[i] : i \in 1..k}
         IN /\ disk = [d \in {SequenceDir} |-> S]
            /\ num_frames \in [S -> 0..MaxFrames]
    /\ NotStarted

Next ==
    \/ Construct
    \/ Len_
    \/ GetItem
    \/ GetFramesTimestamps
    \/ ProjectPoints

Spec == Init /\ [][Next]_vars

(***************************************************************************)
(* Construction from any specifier.                                        *)
(***************************************************************************)
SpecChars == {"s", "#", "-", "1"}
Specifiers == UNION {[1..n -> SpecChars] : n \in 0..MaxSpecLen}
InitNames == {FileName(<<"0">>, "1"), FileName(<<"1">>, "1"),
              FileName(<<"1", "1">>, "1")}

InitConstruct ==
    /\ sequence \in Specifiers
    /\ \E S \in SUBSET InitNames, n \in 0..MaxFrames :
          /\ disk = [d \in {SequenceDir} |-> S]
          /\ num_frames = [f \in S |-> n]
    /\ NotStarted

NextConstruct == Construct

SpecConstruct == InitConstruct /\ [][NextConstruct]_vars

-----------------------------------------------------------------------------
(***************************************************************************)
(* Properties of the frame index (Spec).                                   *)
(***************************************************************************)
\* Frames of the first k files.
Cumulative(k) == PySum(SubSeq(frames_per_file, 1, k))

IsGetItem == pc = "ready" /\ ret.op = "__getitem__"
ValidIdx(idx) == 0 <= idx /\ idx < PySum(frames_per_file)

\* C1: dataset[target] finds no (file_idx, frame_idx) and fails with the
\* out-of-range condition whenever target < 0 or target >= total_frames.
C1_OutOfRangeFails ==
    (IsGetItem /\ ~ValidIdx(ret.idx))
        => (ret.lookup = Raised("ValueError") /\ ret.raised = "ValueError")

\* The part of C1 the code keeps: a target at or past the end, or any
\* target of an empty dataset, raises.
C1_PastEndFails ==
    (IsGetItem /\ (ret.idx >= PySum(frames_per_file) \/ frames_per_file = <<>>))
        => ret.lookup = Raised("ValueError")

C1_Witness ==
    /\ IsGetItem
    /\ ret.idx < 0
    /\ frames_per_file # <<>>

\* C2: for 0 <= target < sum(frames_per_file) the lookup returns the first
\* file whose cumulative frame count exceeds target, and the offset of
\* target in it: 0 <= frame_idx < frames_per_file[file_idx] and
\* sum(frames_per_file[0..file_idx-1]) + frame_idx = target.
C2_LookupCorrect ==
    (IsGetItem /\ ValidIdx(ret.idx)) =>
        /\ ret.lookup.raised = "none"
        /\ LET file_idx == ret.lookup.file_idx
               frame_idx == ret.lookup.frame_idx
           IN /\ file_idx \in 0..(Len(frames_per_file) - 1)
              /\ Cumulative(file_idx + 1) > ret.idx
              /\ \A k \in 0..(file_idx - 1) : Cumulative(k + 1) <= ret.idx
              /\ frame_idx = ret.idx - Cumulative(file_idx)
              /\ 0 <= frame_idx
              /\ frame_idx < frames_per_file[file_idx + 1]
              /\ Cumulative(file_idx) + frame_idx = ret.idx

\* A frame that is not the first of a file that follows a zero-frame file.
C2_Witness ==
    /\ IsGetItem
    /\ ValidIdx(ret.idx)
    /\ ret.lookup.raised = "none"
    /\ ret.lookup.file_idx > 0
    /\ ret.lookup.frame_idx > 0
    /\ \E k \in 1..ret.lookup.file_idx : frames_per_file[k] = 0

LexLeq(a, b) ==
    \/ a.file_idx < b.file_idx
    \/ a.file_idx = b.file_idx /\ a.frame_idx <= b.frame_idx

\* C4: reading global index i and then i + 1, both valid, the lookup's
\* (file_idx, frame_idx) does not decrease lexicographically.
C4_Monotone ==
    [][(/\ IsGetItem
        /\ ret'.op = "__getitem__"
        /\ ret'.idx = ret.idx + 1
        /\ ValidIdx(ret.idx)
        /\ ValidIdx(ret'.idx))
       => (/\ ret.lookup.raised = "none"
           /\ ret'.lookup.raised = "none"
           /\ LexLeq(ret.lookup, ret'.lookup))]_vars

\* A read that crosses from one file into a later one.
C4_Witness ==
    /\ IsGetItem
    /\ ValidIdx(ret.idx)
    /\ ret.idx > 0
    /\ ret.lookup.raised = "none"
    /\ ret.lookup.file_idx > 0
    /\ ret.lookup.frame_idx = 0

\* C6: get_frames_timestamps returns len(dataset) entries, the k-th being
\* the timestamp of the frame the lookup maps global index k to.
C6_TimestampsPerFrame ==
    (pc = "ready" /\ ret.op = "get_frames_timestamps") =>
        /\ Len(ret.value) = PySum(frames_per_file)
        /\ \A k \in 0..(PySum(frames_per_file) - 1) :
             LET found == FindFileAndFrame(frames_per_file, k)
             IN /\ found.raised = "none"
                /\ ret.value[k + 1] =
                     Timestamp(Frame(files_buffer[found.file_idx + 1],
                                     found.frame_idx))

C6_Witness ==
    /\ pc = "ready"
    /\ ret.op = "get_frames_timestamps"
    /\ Len(files_buffer) >= 2
    /\ \E i, j \in 1..Len(files_buffer) :
          i < j /\ frames_per_file[i] >= 2 /\ frames_per_file[j] >= 2

\* C9: for every valid idx, project_points reads the image of local frame
\* frame_idx + 1 of the file the lookup resolved, and that is a frame of
\* the file: frame_idx + 1 < frames_per_file[file_idx].
C9_ImageFrameInFile ==
    (pc = "ready" /\ ret.op = "project_points" /\ ValidIdx(ret.idx)) =>
        /\ ret.lookup.raised = "none"
        /\ ret.img_idx = ret.lookup.frame_idx + 1
        /\ ret.img_idx < frames_per_file[ret.lookup.file_idx + 1]

C9_Witness ==
    /\ pc = "ready"
    /\ ret.op = "project_points"
    /\ ValidIdx(ret.idx)
    /\ ret.idx = PySum(frames_per_file) - 1

-----------------------------------------------------------------------------
(***************************************************************************)
(* Properties of range resolution (SpecResolve).                           *)
(***************************************************************************)
IsResolved == pc = "resolved" /\ ret.op = "_filter_file_range"
RangeGiven == IsResolved /\ ret.start_id # None /\ ret.end_id # None

\* The ids of the files of the sequence directory, in sorted order.
FileIds ==
    LET all_files == Glob(aeif_sequence_dir)
    IN [i \in 1..Len(all_files) |-> FileId(all_files[i])]

\* 0-based indices of the files with the id
Matches(ids, id) == {i \in 0..(Len(ids) - 1) : Some(ids[i + 1]) = id}
Least(S) == CHOOSE i \in S : \A j \in S : i <= j

\* The files the loop looks at: up to the first one with end_id.
Scanned(ids, end_id) ==
    IF Matches(ids, end_id) = {} THEN 0..(Len(ids) - 1)
    ELSE 0..Least(Matches(ids, end_id))

Ascending(ids) == \A i \in 1..(Len(ids) - 1) : ids[i] < ids[i + 1]

\* C3: with strictly ascending ids and a range startID <= endID whose ids
\* both occur, the slice holds exactly the files with startID <= id <=
\* endID; with no range it is [0, len(all_files)).
C3_RangeExact ==
    IsResolved =>
        LET ids == FileIds
        IN /\ ~RangeGiven => ret.value = <<0, Len(ids)>>
           /\ (/\ RangeGiven
               /\ Ascending(ids)
               /\ ret.start_id[1] <= ret.end_id[1]
               /\ Matches(ids, ret.start_id) # {}
               /\ Matches(ids, ret.end_id) # {})
              => {i \in 0..(Len(ids) - 1) : ret.value[1] <= i /\ i < ret.value[2]}
                 = {i \in 0..(Len(ids) - 1) :
                       /\ ret.start_id[1] <= ids[i + 1]
                       /\ ids[i + 1] <= ret.end_id[1]}

\* A range strictly inside four files with ascending ids.
C3_Witness ==
    /\ RangeGiven
    /\ LET ids == FileIds
       IN /\ Len(ids) >= 4
          /\ Ascending(ids)
          /\ Matches(ids, ret.start_id) # {}
          /\ Matches(ids, ret.end_id) # {}
          /\ ret.start_id[1] < ret.end_id[1]
          /\ ret.value[1] > 0
          /\ ret.value[2] < Len(ids)

\* C7: with a range given, start_file is the index of the first scanned
\* file whose id equals startID, whatever files with that id follow it.
C7_FirstStartMatch ==
    RangeGiven =>
        LET ids == FileIds
            hits == Matches(ids, ret.start_id) \cap Scanned(ids, ret.end_id)
        IN hits # {} => ret.value[1] = Least(hits)

\* What the code does instead: the first match unless that is file 0 and
\* another match is scanned, and then the second.
C7_StartAsCoded ==
    RangeGiven =>
        LET ids == FileIds
            hits == Matches(ids, ret.start_id) \cap Scanned(ids, ret.end_id)
        IN hits # {} =>
             ret.value[1] = IF Least(hits) = 0 /\ hits # {0}
                            THEN Least(hits \ {0}) ELSE Least(hits)

\* File 0 has startID, and so has a later scanned file.
C7_Witness ==
    /\ RangeGiven
    /\ LET ids == FileIds
           hits == Matches(ids, ret.start_id) \cap Scanned(ids, ret.end_id)
       IN 0 \in hits /\ hits # {0}

\* C8: with a range given, end_file is the index of the first file with
\* endID plus one, and no file after that one matters; with no such file
\* end_file is len(all_files); with no file with startID start_file is 0.
C8_EndAtFirstMatch ==
    RangeGiven =>
        LET ids == FileIds
            ends == Matches(ids, ret.end_id)
        IN /\ ends # {} =>
                /\ ret.value[2] = Least(ends) + 1
                /\ LET seen == SubSeq(Glob(aeif_sequence_dir), 1, Least(ends) + 1)
                   IN ret.value =
                        ScanRange(seen, ret.start_id, ret.end_id, 0, 0, Len(seen))
           /\ ends = {} => ret.value[2] = Len(ids)
           /\ Matches(ids, ret.start_id) = {} => ret.value[1] = 0

\* The first file with endID is followed by another one with endID and by
\* one with startID.
C8_Witness ==
    /\ RangeGiven
    /\ ret.start_id # ret.end_id
    /\ LET ids == FileIds
           ends == Matches(ids, ret.end_id)
       IN /\ ends # {}
          /\ \E i \in ends : i > Least(ends)
          /\ \E i \in Matches(ids, ret.start_id) : i > Least(ends)

\* C10: 0 <= start_file <= end_file <= len(all_files) in every case, and
\* start_file < end_file when there is a file.
C10_SliceWellFormed ==
    IsResolved =>
        LET n == Len(Glob(aeif_sequence_dir))
        IN /\ 0 <= ret.value[1]
           /\ ret.value[1] <= ret.value[2]
           /\ ret.value[2] <= n
           /\ n > 0 => ret.value[1] < ret.value[2]

\* startID and endID name the same file, which is not the first.
C10_Witness ==
    /\ RangeGiven
    /\ ret.start_id = ret.end_id
    /\ LET ends == Matches(FileIds, ret.end_id)
       IN /\ ends # {}
          /\ Least(ends) > 0
          /\ ret.value = <<Least(ends), Least(ends) + 1>>

-----------------------------------------------------------------------------
(***************************************************************************)
(* Properties of construction (SpecConstruct).                             *)
(***************************************************************************)
SpecParts == Split(sequence, "#")

\* <name>#<range> whose range is not two integers joined by "-"
MalformedRange ==
    /\ Len(SpecParts) = 2
    /\ LET ids == Split(SpecParts[2], "-")
       IN ~(Len(ids) = 2 /\ PyInt(ids[1]).ok /\ PyInt(ids[2]).ok)

\* C5: a specifier <name>#<range> with a malformed range is constructed as
\* <name> alone is: the directory is data_dir/<name> and the slice is all
\* of its files.
C5_MalformedRangeIsName ==
    (pc = "ready" /\ MalformedRange) =>
        /\ aeif_sequence_dir = SpecParts[1]
        /\ <<start_file, end_file>> = <<0, Len(Glob(SpecParts[1]))>>

\* What the code does: the whole specifier names the directory.
C5_WholeSpecifierIsName ==
    (pc = "ready" /\ MalformedRange) =>
        /\ sequence_name = sequence
        /\ aeif_sequence_dir = sequence
        /\ <<start_file, end_file>> = <<0, Len(Glob(sequence))>>

C5_Witness ==
    /\ pc = "ready"
    /\ MalformedRange
    /\ SpecParts[1] = SequenceDir
    /\ Len(Glob(SequenceDir)) > 0

=============================================================================
